---------------------------- MODULE Spec2Model ----------------------------
(***************************************************************************)
(* Smart Energy Monitoring Dashboard (src/app.py).                         *)
(*                                                                         *)
(* The program is a Streamlit script: every interaction with a sidebar     *)
(* control re-runs the whole script (one render pass) against the current  *)
(* widget values.  The state is the widget values plus the page the last   *)
(* pass produced.                                                          *)
(*                                                                         *)
(* Representation choices:                                                 *)
(*   - text (column names, CSV output, formatted numbers) is a sequence of *)
(*     one-character strings, so that Python's substring test and the CSV  *)
(*     writer are computed character by character;                         *)
(*   - numbers that are float64 in the program are exact rationals <<n,d>> *)
(*     in lowest terms with d > 0;                                         *)
(*   - a raw Timestamp cell is the civil date-time <<y, mo, d, h, mi>>     *)
(*     written in the file; pd.to_datetime turns it into minutes since     *)
(*     2025-12-01 00:00 (a Monday) or raises;                              *)
(*   - an optional value is a sequence of length 0 (absent) or 1.          *)
(***************************************************************************)
EXTENDS Integers, Sequences, FiniteSets, TLC

VARIABLES device_type, time_granularity, tariff, data_option, uploaded, page

vars == <<device_type, time_granularity, tariff, data_option, uploaded, page>>

---------------------------------------------------------------------------
(* Bounds of the model *)

\* An uploaded file has at most MaxRows data rows.
MaxRows == 2

---------------------------------------------------------------------------
(* Optional values *)

None == <<>>
Some(x) == <<x>>
IsSome(o) == Len(o) = 1
Get(o) == o[1]

---------------------------------------------------------------------------
(* Text *)

Str_Timestamp == <<"T","i","m","e","s","t","a","m","p">>
Str_time      == <<"t","i","m","e">>
Str_All       == <<"A","l","l">>
Str_Fan       == <<"F","a","n">>
Str_Light     == <<"L","i","g","h","t">>
Str_Fridge    == <<"F","r","i","d","g","e">>
Str_TV        == <<"T","V">>
Str_W         == <<" ","(","W",")">>
Str_FanW      == Str_Fan \o Str_W
Str_LightW    == Str_Light \o Str_W
Str_FridgeW   == Str_Fridge \o Str_W
Str_TVW       == Str_TV \o Str_W
\* A device label that holds the delimiter and the quote character of CSV.
Str_FanQ      == <<"F","a","n",","," ","\"","A","\"">>
Str_TotalKWh  == <<"T","o","t","a","l"," ","k","W","h">>
Str_EstCost   == <<"E","s","t","i","m","a","t","e","d"," ","C","o","s","t",
                   " ","(","I","N","R",")">>

\* Python's `a in b` on strings: a occurs in b as a contiguous substring.
Contains(a, b) ==
    \E i \in 0..(Len(b) - Len(a)) : SubSeq(b, i + 1, i + Len(a)) = a

\* Python's `x in xs` on a list or an Index.
Member(x, xs) == \E i \in 1..Len(xs) : xs[i] = x

RECURSIVE Concat(_)
Concat(ss) == IF ss = <<>> THEN <<>> ELSE Head(ss) \o Concat(Tail(ss))

---------------------------------------------------------------------------
(* Exact rationals in place of float64 *)

RECURSIVE GCD(_, _)
GCD(a, b) == IF b = 0 THEN a ELSE GCD(b, a % b)

Abs(n) == IF n < 0 THEN -n ELSE n

Q(n, d) == LET g == GCD(Abs(n), d) IN <<n \div g, d \div g>>
QInt(n) == <<n, 1>>
QAdd(a, b) == Q(a[1] * b[2] + b[1] * a[2], a[2] * b[2])
QMul(a, b) == Q(a[1] * b[1], a[2] * b[2])
QDivInt(a, k) == Q(a[1], a[2] * k)
QLess(a, b) == a[1] * b[2] < b[1] * a[2]
QSub(a, b) == QAdd(a, <<-b[1], b[2]>>)
QAbs(a) == <<Abs(a[1]), a[2]>>

RECURSIVE QSum(_)
QSum(qs) == IF qs = <<>> THEN QInt(0) ELSE QAdd(Head(qs), QSum(Tail(qs)))

RECURSIVE Pow10(_)
Pow10(k) == IF k = 0 THEN 1 ELSE 10 * Pow10(k - 1)

\* The integer nearest to n/d (d > 0), ties to the even one.
RoundHalfEven(n, d) ==
    LET f == n \div d
        r == n % d
    IN  IF 2 * r < d THEN f
        ELSE IF 2 * r > d THEN f + 1
        ELSE IF f % 2 = 0 THEN f ELSE f + 1


\* numpy's round(x, k): x * 10^k, rounded to the nearest integer (ties to
\* even), over 10^k.
QRound(q, k) == Q(RoundHalfEven(q[1] * Pow10(k), q[2]), Pow10(k))

---------------------------------------------------------------------------
(* Numbers as text *)

Digits == <<"0","1","2","3","4","5","6","7","8","9">>

\* The decimal digits of a natural number.
RECURSIVE NatStr(_)
NatStr(n) == IF n < 10 THEN <<Digits[n + 1]>>
             ELSE NatStr(n \div 10) \o <<Digits[(n % 10) + 1]>>

\* The k low decimal digits of n, zero-padded on the left.
RECURSIVE PadStr(_, _)
PadStr(n, k) == IF k = 0 THEN <<>>
                ELSE PadStr(n \div 10, k - 1) \o <<Digits[(n % 10) + 1]>>

\* s without its trailing "0" characters.
RECURSIVE StripZeros(_)
StripZeros(s) == IF s # <<>> /\ s[Len(s)] = "0"
                 THEN StripZeros(SubSeq(s, 1, Len(s) - 1)) ELSE s

\* Python's f"{x:.kf}": x rounded to k decimals, always k digits after the
\* point.
FormatFixed(q, k) ==
    LET m == RoundHalfEven(q[1] * Pow10(k), q[2])
        a == Abs(m)
    IN  (IF m < 0 THEN <<"-">> ELSE <<>>)
        \o NatStr(a \div Pow10(k)) \o <<".">> \o PadStr(a % Pow10(k), k)

\* The number of decimals of a fraction with denominator d (d divides a power
\* of ten: the values written are rounded ones).
RECURSIVE DecimalPlaces(_, _)
DecimalPlaces(d, k) == IF Pow10(k) % d = 0 THEN k ELSE DecimalPlaces(d, k + 1)

\* Python's repr of a float with finitely many decimals (what to_csv writes):
\* the shortest digits that give the value back, at least one after the point.
FloatRepr(q) ==
    LET k == DecimalPlaces(q[2], 0)
        m == (q[1] * Pow10(k)) \div q[2]
        a == Abs(m)
        frac == StripZeros(PadStr(a % Pow10(k), k))
    IN  (IF m < 0 THEN <<"-">> ELSE <<>>)
        \o NatStr(a \div Pow10(k)) \o <<".">>
        \o (IF frac = <<>> THEN <<"0">> ELSE frac)

---------------------------------------------------------------------------
(* Calendar: pd.to_datetime and the resampling rules *)

IsLeap(y) == (y % 4 = 0 /\ y % 100 # 0) \/ y % 400 = 0

DaysInMonth(y, mo) ==
    IF mo = 2 THEN (IF IsLeap(y) THEN 29 ELSE 28)
    ELSE IF mo \in {4, 6, 9, 11} THEN 30 ELSE 31

\* Months are counted from December 2025: month number 0 is 2025-12.
MonthNo(y, mo) == (y - 2025) * 12 + (mo - 12)
YearOf(k) == 2025 + ((k + 11) \div 12)
MonthOf(k) == ((k + 11) % 12) + 1

\* Days from 2025-12-01 to the first day of month number k (k >= 0).
RECURSIVE MonthStartDay(_)
MonthStartDay(k) ==
    IF k = 0 THEN 0
    ELSE MonthStartDay(k - 1) + DaysInMonth(YearOf(k - 1), MonthOf(k - 1))

\* The month number of day number d (d >= 0), searching from month k.
RECURSIVE MonthOfDayFrom(_, _)
MonthOfDayFrom(d, k) ==
    IF d < MonthStartDay(k + 1) THEN k ELSE MonthOfDayFrom(d, k + 1)

MonthOfDay(d) == MonthOfDayFrom(d, 0)

\* A raw cell is a date-time pandas can parse iff its fields are in range.
Parsable(c) ==
    /\ c[2] \in 1..12
    /\ c[3] \in 1..DaysInMonth(c[1], c[2])
    /\ c[4] \in 0..23
    /\ c[5] \in 0..59

\* pd.to_datetime on one parsable cell: minutes since 2025-12-01 00:00 (the
\* model's files hold no earlier date).
to_datetime(c) ==
    ((MonthStartDay(MonthNo(c[1], c[2])) + (c[3] - 1)) * 24 + c[4]) * 60 + c[5]

\* BucketOf with months taken as windows of 30 days.
BucketOf_Fixed30(rule, t) ==
    CASE rule = "H" -> t \div 60
      [] rule = "D" -> t \div (24 * 60)
      [] rule = "W" -> (t \div (24 * 60)) \div 7
      [] rule = "M" -> (t \div (24 * 60)) \div 30

\* The bucket a time falls in under a resampling rule: "H" hours, "D" days,
\* "W" weeks ending on Sunday (Monday to Sunday), "M" calendar months.
BucketOf(rule, t) ==
    CASE rule = "H" -> t \div 60
      [] rule = "D" -> t \div (24 * 60)
      [] rule = "W" -> (t \div (24 * 60)) \div 7
      [] rule = "M" -> MonthOfDay(t \div (24 * 60))

\* The label pandas gives a bucket: the start of the hour or day, the Sunday
\* that ends the week, the last day of the month.
BucketLabel(rule, b) ==
    CASE rule = "H" -> b * 60
      [] rule = "D" -> b * 24 * 60
      [] rule = "W" -> (b * 7 + 6) * 24 * 60
      [] rule = "M" -> (MonthStartDay(b + 1) - 1) * 24 * 60

---------------------------------------------------------------------------
(* DataFrames *)

\* A DataFrame read from a file: the header and the rows, every row holding
\* one cell per column.
DataFrame(columns, rows) == [columns |-> columns, rows |-> rows]

ColIndex(columns, c) == CHOOSE i \in 1..Len(columns) : columns[i] = c

\* df[c]: the cells of column c, top to bottom.
Column(df, c) ==
    LET i == ColIndex(df.columns, c)
    IN  [r \in 1..Len(df.rows) |-> df.rows[r][i]]

Ts(d, h, mi) == <<2025, 12, d, h, mi>>

\* The built-in sample of lines 36-46.
SampleData ==
    LET ts  == <<Ts(26,8,0), Ts(26,9,0), Ts(26,10,0), Ts(26,11,0), Ts(26,12,0),
                 Ts(26,13,0), Ts(26,14,0), Ts(26,15,0), Ts(26,16,0)>>
        fan == <<120, 100, 130, 90, 110, 95, 105, 115, 98>>
        lig == <<60, 40, 70, 50, 65, 55, 45, 60, 52>>
        fri == <<200, 220, 210, 230, 205, 215, 225, 210, 220>>
        tv  == <<150, 160, 140, 170, 155, 145, 165, 150, 160>>
    IN  DataFrame(<<Str_Timestamp, Str_FanW, Str_LightW, Str_FridgeW, Str_TVW>>,
                  [r \in 1..9 |-> <<ts[r], QInt(fan[r]), QInt(lig[r]),
                                    QInt(fri[r]), QInt(tv[r])>>])

---------------------------------------------------------------------------
(* The stages of a render pass, lines 51-128 *)

\* Line 52: "Timestamp" in df.columns.
HasTimestamp(df) == Member(Str_Timestamp, df.columns)

\* Line 56 raises unless every Timestamp cell parses.
TimestampsParse(df) ==
    \A r \in 1..Len(df.rows) : Parsable(Column(df, Str_Timestamp)[r])

\* Line 57: every column but Timestamp, in file order.
DeviceCols(df) == SelectSeq(df.columns, LAMBDA c : c # Str_Timestamp)

\* Line 64: the columns whose name contains the device type.
FilterCols(device_cols, dt) == SelectSeq(device_cols, LAMBDA c : Contains(dt, c))

\* Lines 56 and 70: the frame indexed by the parsed Timestamp; its columns are
\* the other columns of the file.
Work(df) ==
    LET cols == DeviceCols(df)
    IN  [index   |-> [r \in 1..Len(df.rows) |->
                         to_datetime(Column(df, Str_Timestamp)[r])],
         columns |-> cols,
         data    |-> [r \in 1..Len(df.rows) |->
                         [j \in 1..Len(cols) |-> Column(df, cols[j])[r]]]]

\* The values of column j of work in the rows whose time falls in bucket b.
RECURSIVE BucketValues(_, _, _, _, _)
BucketValues(work, rule, b, j, r) ==
    IF r > Len(work.index) THEN <<>>
    ELSE (IF BucketOf(rule, work.index[r]) = b THEN <<work.data[r][j]>> ELSE <<>>)
         \o BucketValues(work, rule, b, j, r + 1)

\* mean() of a bucket: NaN (None) for a bucket without rows.
Mean(vals) == IF vals = <<>> THEN None
              ELSE Some(QDivInt(QSum(vals), Len(vals)))

SeqMin(s) == CHOOSE x \in {s[i] : i \in 1..Len(s)} :
                 \A i \in 1..Len(s) : x <= s[i]
SeqMax(s) == CHOOSE x \in {s[i] : i \in 1..Len(s)} :
                 \A i \in 1..Len(s) : x >= s[i]

\* Resample leaving out the buckets that hold no row.
Resample_DropEmpty(work, rule) ==
    IF Len(work.index) = 0
    THEN [index |-> <<>>, columns |-> work.columns, data |-> <<>>]
    ELSE LET lo == BucketOf(rule, SeqMin(work.index))
             hi == BucketOf(rule, SeqMax(work.index))
             bs == SelectSeq([k \in 1..(hi - lo + 1) |-> lo + k - 1],
                             LAMBDA b : \E r \in 1..Len(work.index) :
                                            BucketOf(rule, work.index[r]) = b)
         IN  [index   |-> [k \in 1..Len(bs) |-> BucketLabel(rule, bs[k])],
              columns |-> work.columns,
              data    |-> [k \in 1..Len(bs) |->
                              [j \in 1..Len(work.columns) |->
                                  Mean(BucketValues(work, rule, bs[k], j, 1))]]]

\* Lines 71-78: work.resample(rule).mean(): one row for every bucket from the
\* bucket of the earliest time to the bucket of the latest one.
Resample(work, rule) ==
    IF Len(work.index) = 0
    THEN [index |-> <<>>, columns |-> work.columns, data |-> <<>>]
    ELSE LET lo == BucketOf(rule, SeqMin(work.index))
             hi == BucketOf(rule, SeqMax(work.index))
         IN  [index   |-> [k \in 1..(hi - lo + 1) |-> BucketLabel(rule, lo + k - 1)],
              columns |-> work.columns,
              data    |-> [k \in 1..(hi - lo + 1) |->
                              [j \in 1..Len(work.columns) |->
                                  Mean(BucketValues(work, rule, lo + k - 1, j, 1))]]]

\* Lines 71-78: the rule each Time View resamples with.
RuleOf(tg) ==
    CASE tg = "Hourly" -> "H"
      [] tg = "Daily"  -> "D"
      [] tg = "Weekly" -> "W"
      [] OTHER         -> "M"

\* KwhPerDevice taking the i-th column of work for the i-th selected device,
\* instead of the column of that name.
KwhPerDevice_Positional(work, device_cols) ==
    [i \in 1..Len(device_cols) |->
        [index |-> device_cols[i],
         value |-> QDivInt(QSum([r \in 1..Len(work.index) |-> work.data[r][i]]),
                           1000)]]

\* KwhPerDevice with mean() where line 81 has sum().
KwhPerDevice_Mean(work, device_cols) ==
    [i \in 1..Len(device_cols) |->
        [index |-> device_cols[i],
         value |-> QDivInt(QSum([r \in 1..Len(work.index) |->
                       work.data[r][ColIndex(work.columns, device_cols[i])]]),
                           1000 * (IF Len(work.index) = 0 THEN 1
                                   ELSE Len(work.index)))]]

\* Line 81: (work[device_cols].sum()) / 1000.0, a Series indexed by device.
KwhPerDevice(work, device_cols) ==
    [i \in 1..Len(device_cols) |->
        [index |-> device_cols[i],
         value |-> QDivInt(QSum([r \in 1..Len(work.index) |->
                       work.data[r][ColIndex(work.columns, device_cols[i])]]),
                           1000)]]

\* Costs taken from the kWh as the table shows them, rounded to 3 decimals.
Costs_FromRounded(kwh_per_device, tf) ==
    [i \in 1..Len(kwh_per_device) |->
        [index |-> kwh_per_device[i].index,
         value |-> QMul(QRound(kwh_per_device[i].value, 3), tf)]]

\* Line 82: kwh_per_device * tariff.
Costs(kwh_per_device, tf) ==
    [i \in 1..Len(kwh_per_device) |->
        [index |-> kwh_per_device[i].index,
         value |-> QMul(kwh_per_device[i].value, tf)]]

\* Lines 83-84: Series.sum().
SeriesSum(series) == QSum([i \in 1..Len(series) |-> series[i].value])

\* Lines 96-99: the Device Breakdown frame, one row per device, kWh rounded
\* to 3 decimals and cost to 2.
Summary(kwh_per_device, costs) ==
    [i \in 1..Len(kwh_per_device) |->
        [index  |-> kwh_per_device[i].index,
         kwh    |-> QRound(kwh_per_device[i].value, 3),
         cost   |-> QRound(costs[i].value, 2)]]

\* Lines 107-108: the line chart draws the selected columns of agg against
\* its Timestamp index.
FigLine(agg, device_cols) ==
    [k \in 1..Len(agg.index) |->
        [Timestamp |-> agg.index[k],
         y |-> [i \in 1..Len(device_cols) |->
                   agg.data[k][ColIndex(agg.columns, device_cols[i])]]]]

\* Line 122: sort_values("Total kWh", ascending=False): descending, rows with
\* equal keys in their original order.
RECURSIVE InsertDesc(_, _)
InsertDesc(row, sorted) ==
    IF sorted = <<>> THEN <<row>>
    ELSE IF QLess(Head(sorted).kwh, row.kwh) THEN <<row>> \o sorted
    ELSE <<Head(sorted)>> \o InsertDesc(row, Tail(sorted))

RECURSIVE SortDesc(_, _)
SortDesc(rows, n) ==
    IF n = 0 THEN <<>> ELSE InsertDesc(rows[n], SortDesc(rows, n - 1))

\* Line 122: .head(3).
TopDevices(summary) ==
    LET sorted == SortDesc(summary, Len(summary))
    IN  SubSeq(sorted, 1, IF Len(sorted) < 3 THEN Len(sorted) ELSE 3)

\* The csv module's minimal quoting: a field holding the delimiter, the quote
\* character or a line break is wrapped in quotes, its quotes doubled.
RECURSIVE DoubleQuotes(_)
DoubleQuotes(s) ==
    IF s = <<>> THEN <<>>
    ELSE (IF Head(s) = "\"" THEN <<"\"", "\"">> ELSE <<Head(s)>>)
         \o DoubleQuotes(Tail(s))

\* CsvField writing every field as it is.
CsvField_Unquoted(s) == s

CsvField(s) ==
    IF \E i \in 1..Len(s) : s[i] \in {",", "\"", "\n", "\r"}
    THEN <<"\"">> \o DoubleQuotes(s) \o <<"\"">>
    ELSE s

CsvLine(fields) ==
    Concat([i \in 1..Len(fields) |->
               (IF i > 1 THEN <<",">> ELSE <<>>) \o fields[i]]) \o <<"\n">>

\* Line 127: summary.to_csv(): a header line (the index has no name), then
\* one line per device.  The UTF-8 encoding leaves this text as it is.
to_csv(summary) ==
    CsvLine(<<<<>>, CsvField(Str_TotalKWh), CsvField(Str_EstCost)>>)
    \o Concat([i \in 1..Len(summary) |->
                  CsvLine(<<CsvField(summary[i].index),
                            FloatRepr(summary[i].kwh),
                            FloatRepr(summary[i].cost)>>)])

---------------------------------------------------------------------------
(* One render pass: the script from line 32 to its end or to st.stop() *)

Msg(kind, text, arg) == [kind |-> kind, text |-> text, arg |-> arg]

\* The page of a pass that ended at st.stop() or on an exception: the message
\* and nothing else.
Halted(steps, message) ==
    [steps |-> steps, message |-> Some(message), df_rows |-> None,
     device_cols |-> None, agg |-> None, kwh_per_device |-> None,
     costs |-> None, total_kwh |-> None, total_cost |-> None,
     metrics |-> None, summary |-> None, fig_line |-> None, fig_bar |-> None,
     fig_pie |-> None, top_devices |-> None, csv |-> None]

\* ValidateRest without the st.stop() of line 67: an empty filter result
\* falls through to the dashboard.
ValidateRest_NoStop(df, dt) ==
    IF ~TimestampsParse(df)
    THEN [steps |-> <<"validate", "to_datetime">>,
          stop  |-> Some(Msg("exception", "to_datetime", <<>>))]
    ELSE IF DeviceCols(df) = <<>>
    THEN [steps |-> <<"validate", "to_datetime", "device_cols">>,
          stop  |-> Some(Msg("error",
                "CSV must include device columns like 'Fan (W)', 'Fridge (W)', etc.",
                             <<>>))]
    ELSE IF dt = Str_All
    THEN [steps |-> <<"validate", "to_datetime", "device_cols">>,
          stop  |-> None]
    ELSE [steps |-> <<"validate", "to_datetime", "device_cols", "filter">>,
          stop  |-> None]

\* Lines 56-67 for a frame that has a Timestamp column: the stages attempted
\* and the message the pass stops with, if it stops.
ValidateRest(df, dt) ==
    IF ~TimestampsParse(df)
    THEN [steps |-> <<"validate", "to_datetime">>,
          stop  |-> Some(Msg("exception", "to_datetime", <<>>))]
    ELSE IF DeviceCols(df) = <<>>
    THEN [steps |-> <<"validate", "to_datetime", "device_cols">>,
          stop  |-> Some(Msg("error",
                "CSV must include device columns like 'Fan (W)', 'Fridge (W)', etc.",
                             <<>>))]
    ELSE IF dt = Str_All
    THEN [steps |-> <<"validate", "to_datetime", "device_cols">>,
          stop  |-> None]
    ELSE IF FilterCols(DeviceCols(df), dt) = <<>>
    THEN [steps |-> <<"validate", "to_datetime", "device_cols", "filter">>,
          stop  |-> Some(Msg("warning", "No data found for ", dt))]
    ELSE [steps |-> <<"validate", "to_datetime", "device_cols", "filter">>,
          stop  |-> None]

\* Validate with the device-type filter moved in front of the Timestamp check.
Validate_FilterFirst(df, dt) ==
    IF dt # Str_All /\ FilterCols(DeviceCols(df), dt) = <<>>
    THEN [steps |-> <<"device_cols", "filter">>,
          stop  |-> Some(Msg("warning", "No data found for ", dt))]
    ELSE IF ~HasTimestamp(df)
    THEN [steps |-> <<"device_cols", "filter", "validate">>,
          stop  |-> Some(Msg("error", "CSV must include a 'Timestamp' column.",
                             <<>>))]
    ELSE ValidateRest(df, dt)

\* Lines 51-67: validation and the device-type filter, in the script's order;
\* the Timestamp check of lines 52-54 comes first.
Validate(df, dt) ==
    IF ~HasTimestamp(df)
    THEN [steps |-> <<"validate">>,
          stop  |-> Some(Msg("error", "CSV must include a 'Timestamp' column.",
                             <<>>))]
    ELSE ValidateRest(df, dt)

\* The totals taken from the bucketed means (sum() skips the NaN of the
\* buckets without rows).
TotalsFrame_Agg(work, agg) ==
    LET kept == SelectSeq([k \in 1..Len(agg.index) |->
                              [Timestamp |-> agg.index[k], row |-> agg.data[k]]],
                          LAMBDA e : \A j \in 1..Len(e.row) : IsSome(e.row[j]))
    IN  [index   |-> [k \in 1..Len(kept) |-> kept[k].Timestamp],
         columns |-> agg.columns,
         data    |-> [k \in 1..Len(kept) |->
                         [j \in 1..Len(agg.columns) |-> Get(kept[k].row[j])]]]

\* Line 81 sums the columns of work, the raw rows, not those of agg.
TotalsFrame(work, agg) == work

\* Lines 69-128 for a frame that passed validation.
Dashboard(df, dt, tg, tf, steps) ==
    LET device_cols    == IF dt = Str_All THEN DeviceCols(df)
                          ELSE FilterCols(DeviceCols(df), dt)
        work           == Work(df)
        agg            == Resample(work, RuleOf(tg))
        kwh_per_device == KwhPerDevice(TotalsFrame(work, agg), device_cols)
        costs          == Costs(kwh_per_device, tf)
        total_kwh      == SeriesSum(kwh_per_device)
        total_cost     == SeriesSum(costs)
        summary        == Summary(kwh_per_device, costs)
    IN  [steps |-> steps \o <<"resample", "totals", "kpi", "table", "charts",
                              "top", "export">>,
         message        |-> None,
         df_rows        |-> Some(Len(df.rows)),
         device_cols    |-> Some(device_cols),
         agg            |-> Some(agg),
         kwh_per_device |-> Some(kwh_per_device),
         costs          |-> Some(costs),
         total_kwh      |-> Some(total_kwh),
         total_cost     |-> Some(total_cost),
         metrics        |-> Some([kwh     |-> FormatFixed(total_kwh, 2),
                                  cost    |-> <<"Rs">> \o FormatFixed(total_cost, 2),
                                  records |-> NatStr(Len(df.rows))
                                              \o <<" ", "r", "o", "w", "s">>]),
         summary        |-> Some(summary),
         fig_line       |-> Some(FigLine(agg, device_cols)),
         fig_bar        |-> Some([x |-> [i \in 1..Len(kwh_per_device) |->
                                            kwh_per_device[i].index],
                                  y |-> [i \in 1..Len(kwh_per_device) |->
                                            kwh_per_device[i].value]]),
         fig_pie        |-> Some([names  |-> [i \in 1..Len(kwh_per_device) |->
                                                 kwh_per_device[i].index],
                                  values |-> [i \in 1..Len(kwh_per_device) |->
                                                 kwh_per_device[i].value]]),
         top_devices    |-> Some(TopDevices(summary)),
         csv            |-> Some(to_csv(summary))]

\* Lines 32-49: the frame the pass works on, if there is one.
LoadData(dopt, up) ==
    IF dopt = "Upload CSV" /\ IsSome(up) THEN up
    ELSE IF dopt = "Use Sample" THEN Some(SampleData)
    ELSE None

\* The whole script for given widget values.
Render(dt, tg, tf, dopt, up) ==
    LET loaded == LoadData(dopt, up)
    IN  IF ~IsSome(loaded)
        THEN Halted(<<"load">>,
                    Msg("info", "Upload a CSV to proceed or switch to Sample CSV.",
                        <<>>))
        ELSE LET df == Get(loaded)
                 v  == Validate(df, dt)
             IN  IF IsSome(v.stop)
                 THEN Halted(<<"load">> \o v.steps, Get(v.stop))
                 ELSE Dashboard(df, dt, tg, tf, <<"load">> \o v.steps)

---------------------------------------------------------------------------
(* The inputs of the model *)

\* Line 24-27: the choices of the sidebar widgets.  The tariff field takes any
\* number from 0.0 up; the model offers 8 (the default) and 8.25.
DeviceTypes == {Str_All, Str_Fan, Str_Light, Str_Fridge, Str_TV}
TimeViews == {"Hourly", "Daily", "Weekly", "Monthly"}
TariffChoices == {QInt(8), <<33, 4>>}
DataSources == {"Upload CSV", "Use Sample"}

\* Headers of uploaded files: two devices, one with a label that needs quoting
\* in CSV, around a Timestamp column that is not the first; no device; no
\* Timestamp column.
Headers == {<<Str_FanQ, Str_Timestamp, Str_LightW>>,
            <<Str_Timestamp>>,
            <<Str_time, Str_FanW>>}

\* Timestamp cells of uploaded files: two times in one hour, a time two hours
\* later, the last half hour of December and the first minute of January,
\* and a cell that is no date.
TimeCells == {Ts(28,8,0), Ts(28,8,30), Ts(28,10,0), Ts(31,23,30),
              <<2026, 1, 1, 0, 0>>, Ts(32,8,0)}

\* Watt readings of uploaded files, and the ways a file is filled with them:
\* under filling p the cell of row r and column j holds
\* WattPool[((p + r + 2j) mod 3) + 1].
WattPool == <<QInt(125), <<1, 2>>, QInt(98)>>
Fillings == 1..Len(WattPool)
WattCell(p, r, j) == WattPool[((p + r + 2 * j) % Len(WattPool)) + 1]

IsTimeColumn(c) == c \in {Str_Timestamp, Str_time}

\* The sequences over S of length at most n.
SeqsUpTo(S, n) == UNION {[1..k -> S] : k \in 0..n}

\* The file with header h, Timestamp cells ts (one per row) and filling p.
File(h, ts, p) ==
    DataFrame(h, [r \in 1..Len(ts) |->
                     [j \in 1..Len(h) |->
                         IF IsTimeColumn(h[j]) THEN ts[r] ELSE WattCell(p, r, j)]])

\* The files a user may upload.
Files == {File(h, ts, p) : h \in Headers, ts \in SeqsUpTo(TimeCells, MaxRows),
                           p \in Fillings}

---------------------------------------------------------------------------
(* The session *)

\* The script's first run: every widget at its default, nothing uploaded.
Init ==
    /\ device_type = Str_All
    /\ time_granularity = "Hourly"
    /\ tariff = QInt(8)
    /\ data_option = "Upload CSV"
    /\ uploaded = None
    /\ page = Render(Str_All, "Hourly", QInt(8), "Upload CSV", None)

\* Line 24: another device type is selected; the script re-runs.
SelectDeviceType(dt) ==
    /\ dt # device_type
    /\ device_type' = dt
    /\ page' = Render(dt, time_granularity, tariff, data_option, uploaded)
    /\ UNCHANGED <<time_granularity, tariff, data_option, uploaded>>

\* Line 25: another time view is selected; the script re-runs.
SelectTimeView(tg) ==
    /\ tg # time_granularity
    /\ time_granularity' = tg
    /\ page' = Render(device_type, tg, tariff, data_option, uploaded)
    /\ UNCHANGED <<device_type, tariff, data_option, uploaded>>

\* SetTariff keeping the page of the pass before (no re-run).
SetTariff_Stale(tf) ==
    /\ tf # tariff
    /\ tariff' = tf
    /\ UNCHANGED <<device_type, time_granularity, data_option, uploaded, page>>

\* Line 26: another tariff is entered; the script re-runs.
SetTariff(tf) ==
    /\ tf # tariff
    /\ tariff' = tf
    /\ page' = Render(device_type, time_granularity, tf, data_option, uploaded)
    /\ UNCHANGED <<device_type, time_granularity, data_option, uploaded>>

\* Lines 27-30: the other data source is chosen; the script re-runs.  The
\* uploader exists only under "Upload CSV" (line 29): leaving that source
\* leaves `uploaded` at None (line 28), and the uploader comes back empty.
SelectDataSource(d) ==
    /\ d # data_option
    /\ data_option' = d
    /\ uploaded' = None
    /\ page' = Render(device_type, time_granularity, tariff, d, None)
    /\ UNCHANGED <<device_type, time_granularity, tariff>>

\* Line 30: a file is put into the empty uploader; the script re-runs.
UploadFile(f) ==
    /\ data_option = "Upload CSV"
    /\ uploaded = None
    /\ uploaded' = Some(f)
    /\ page' = Render(device_type, time_granularity, tariff, data_option, Some(f))
    /\ UNCHANGED <<device_type, time_granularity, tariff, data_option>>

\* Line 30: the file is taken out of the uploader; the script re-runs.
RemoveFile ==
    /\ uploaded # None
    /\ uploaded' = None
    /\ page' = Render(device_type, time_granularity, tariff, data_option, None)
    /\ UNCHANGED <<device_type, time_granularity, tariff, data_option>>

Next ==
    \/ \E dt \in DeviceTypes : SelectDeviceType(dt)
    \/ \E tg \in TimeViews : SelectTimeView(tg)
    \/ \E tf \in TariffChoices : SetTariff(tf)
    \/ \E d \in DataSources : SelectDataSource(d)
    \/ \E f \in Files : UploadFile(f)
    \/ RemoveFile

Spec == Init /\ [][Next]_vars

---------------------------------------------------------------------------
(* Properties *)

\* The frame the current widget values load, if any.
CurrentData == LoadData(data_option, uploaded)

\* The outputs a dashboard consists of.
NoDerivedOutput ==
    /\ page.metrics = None
    /\ page.summary = None
    /\ page.fig_line = None
    /\ page.fig_bar = None
    /\ page.fig_pie = None
    /\ page.top_devices = None
    /\ page.csv = None

\* The four input errors, stated on the file and the widget values.
MissingColumn(df) == \A i \in 1..Len(df.columns) : df.columns[i] # Str_Timestamp

UnparsableTimestamp(df) ==
    \E i \in 1..Len(df.columns) :
        /\ df.columns[i] = Str_Timestamp
        /\ \E r \in 1..Len(df.rows) : ~Parsable(df.rows[r][i])

NoDeviceColumns(df) == \A i \in 1..Len(df.columns) : df.columns[i] = Str_Timestamp

EmptyFilterResult(df, dt) ==
    /\ dt # Str_All
    /\ \A i \in 1..Len(df.columns) :
           df.columns[i] = Str_Timestamp \/ ~Contains(dt, df.columns[i])

\* C1: a pass over a dataset without a column named exactly "Timestamp" stops
\* with the validation error of line 53, having attempted nothing but the load
\* and that check (no timestamp parsing, device-column detection, filtering,
\* resampling or totalling), whatever the other columns and the widget values.
C1_MissingTimestampRejectedFirst ==
    (IsSome(CurrentData) /\ MissingColumn(Get(CurrentData))) =>
        /\ page.message = Some(Msg("error",
                                   "CSV must include a 'Timestamp' column.", <<>>))
        /\ page.steps = <<"load", "validate">>
        /\ page.agg = None
        /\ page.kwh_per_device = None
        /\ page.total_cost = None
        /\ NoDerivedOutput

\* A file without Timestamp is shown while the device filter matches none of
\* its columns and its time cells include one that is no date.
C1_Witness ==
    /\ IsSome(uploaded)
    /\ MissingColumn(Get(uploaded))
    /\ device_type = Str_TV
    /\ \E r \in 1..Len(Get(uploaded).rows) : ~Parsable(Get(uploaded).rows[r][1])
    /\ IsSome(page.message)
    /\ Get(page.message).kind = "error"

\* C2: in every pass in which one of the four input errors occurs, the pass
\* ends with a message and shows none of the derived outputs.
C2_InputErrorsAreTerminal ==
    (/\ IsSome(CurrentData)
     /\ \/ MissingColumn(Get(CurrentData))
        \/ UnparsableTimestamp(Get(CurrentData))
        \/ NoDeviceColumns(Get(CurrentData))
        \/ EmptyFilterResult(Get(CurrentData), device_type)) =>
        /\ IsSome(page.message)
        /\ Get(page.message).kind \in {"error", "warning", "exception"}
        /\ NoDerivedOutput

\* The filter excludes every column of a file that is otherwise valid.
C2_Witness ==
    /\ IsSome(uploaded)
    /\ ~MissingColumn(Get(uploaded))
    /\ ~UnparsableTimestamp(Get(uploaded))
    /\ ~NoDeviceColumns(Get(uploaded))
    /\ Len(Get(uploaded).rows) > 0
    /\ EmptyFilterResult(Get(uploaded), device_type)
    /\ IsSome(page.message)
    /\ Get(page.message).kind = "warning"
    /\ NoDerivedOutput

\* Each of the other three errors is reached too.
C2_ReachMissingColumn ==
    IsSome(uploaded) /\ MissingColumn(Get(uploaded)) /\ NoDerivedOutput
C2_ReachUnparsable ==
    /\ IsSome(uploaded) /\ UnparsableTimestamp(Get(uploaded))
    /\ IsSome(page.message) /\ Get(page.message).kind = "exception"
C2_ReachNoDeviceColumns ==
    /\ IsSome(uploaded) /\ NoDeviceColumns(Get(uploaded))
    /\ ~UnparsableTimestamp(Get(uploaded))
    /\ IsSome(page.message) /\ Get(page.message).kind = "error"

---------------------------------------------------------------------------
(* Totals, stated on the raw cells of the file *)

\* The sum of the cells of column i in the first r rows.
RECURSIVE RawSum(_, _, _)
RawSum(df, i, r) ==
    IF r = 0 THEN QInt(0) ELSE QAdd(RawSum(df, i, r - 1), df.rows[r][i])

\* The raw watts of device c over the whole file, over 1000.
RawKwh(df, c) ==
    LET i == CHOOSE k \in 1..Len(df.columns) : df.columns[k] = c
        w == RawSum(df, i, Len(df.rows))
    IN  Q(w[1], w[2] * 1000)

RECURSIVE RawKwhTotal(_, _, _)
RawKwhTotal(df, cols, n) ==
    IF n = 0 THEN QInt(0)
    ELSE QAdd(RawKwhTotal(df, cols, n - 1), RawKwh(df, cols[n]))

\* shown has at most k decimals and lies within half a unit of the k-th decimal
\* of exact.
IsRounding(shown, exact, k) ==
    /\ Pow10(k) % shown[2] = 0
    /\ ~QLess(<<1, 2 * Pow10(k)>>, QAbs(QSub(shown, exact)))

\* The number a decimal text denotes: digits, at most one point, a leading
\* minus sign.
DigitVal(ch) == CHOOSE k \in 0..9 : Digits[k + 1] = ch

RECURSIVE ParseNat(_)
ParseNat(s) == IF s = <<>> THEN 0
               ELSE ParseNat(SubSeq(s, 1, Len(s) - 1)) * 10 + DigitVal(s[Len(s)])

IsDigits(s) == s # <<>> /\ \A i \in 1..Len(s) : \E k \in 1..10 : Digits[k] = s[i]

Unsigned(s) == IF s # <<>> /\ s[1] = "-" THEN Tail(s) ELSE s

PointAt(s) == IF \E i \in 1..Len(s) : s[i] = "."
              THEN CHOOSE i \in 1..Len(s) : s[i] = "." /\ \A j \in 1..(i - 1) : s[j] # "."
              ELSE 0

IsDecimal(s) ==
    LET u == Unsigned(s)
        p == PointAt(u)
    IN  IF p = 0 THEN IsDigits(u)
        ELSE IsDigits(SubSeq(u, 1, p - 1)) /\ IsDigits(SubSeq(u, p + 1, Len(u)))

ParseDecimal(s) ==
    LET u == Unsigned(s)
        p == PointAt(u)
        whole == IF p = 0 THEN u ELSE SubSeq(u, 1, p - 1)
        frac  == IF p = 0 THEN <<>> ELSE SubSeq(u, p + 1, Len(u))
        n == ParseNat(whole) * Pow10(Len(frac)) + ParseNat(frac)
    IN  Q(IF u = s THEN n ELSE -n, Pow10(Len(frac)))

\* C3: for every selected device, total kWh is the sum of all of the device's
\* raw watt readings over 1000, whatever the spacing of the timestamps, and the
\* estimated cost is that kWh times the tariff; the Device Breakdown shows the
\* two rounded to 3 and to 2 decimals.  On the sample, Fan has 0.963 kWh and,
\* at tariff 8.0, cost 7.704, shown as 7.70.
C3_TotalsAreRawSums ==
    IsSome(page.summary) =>
        LET df   == Get(CurrentData)
            cols == Get(page.device_cols)
            kwh  == Get(page.kwh_per_device)
            cost == Get(page.costs)
            summ == Get(page.summary)
        IN  /\ Len(kwh) = Len(cols) /\ Len(cost) = Len(cols) /\ Len(summ) = Len(cols)
            /\ \A i \in 1..Len(cols) :
                  /\ kwh[i] = [index |-> cols[i], value |-> RawKwh(df, cols[i])]
                  /\ cost[i] = [index |-> cols[i],
                                value |-> QMul(RawKwh(df, cols[i]), tariff)]
                  /\ summ[i].index = cols[i]
                  /\ IsRounding(summ[i].kwh, RawKwh(df, cols[i]), 3)
                  /\ IsRounding(summ[i].cost, QMul(RawKwh(df, cols[i]), tariff), 2)
            /\ (data_option = "Use Sample" /\ device_type = Str_Fan) =>
                  /\ cols = <<Str_FanW>>
                  /\ kwh[1].value = <<963, 1000>>
                  /\ summ[1].kwh = <<963, 1000>>
                  /\ tariff = QInt(8) =>
                        /\ cost[1].value = <<963, 125>>
                        /\ summ[1].cost = <<77, 10>>
                        /\ Get(page.metrics).cost = <<"Rs", "7", ".", "7", "0">>

\* The file has two readings at the same minute or half an hour apart, none
\* an hour apart, and the total shown differs from the exact one by rounding.
C3_Witness ==
    /\ IsSome(uploaded)
    /\ IsSome(page.summary)
    /\ Len(Get(uploaded).rows) = 2
    /\ LET t == Column(Get(uploaded), Str_Timestamp)
       IN  to_datetime(t[2]) - to_datetime(t[1]) \in {0, 30}
    /\ Get(page.summary)[1].kwh # Get(page.kwh_per_device)[1].value
    /\ Get(page.kwh_per_device)[1].value
           = RawKwh(Get(uploaded), Get(page.device_cols)[1])

\* The sample's Fan column at tariff 8.0.
C3_ReachSampleFan ==
    /\ data_option = "Use Sample" /\ device_type = Str_Fan /\ tariff = QInt(8)
    /\ IsSome(page.summary)
    /\ Get(page.summary)[1].cost = <<77, 10>>

\* C4: with N device columns selected and tariff T, the total estimated cost is
\* T times the sum of the devices' total kWh; the KPI card shows it rounded to
\* 2 decimals.  With "All" selected the N devices are all the non-Timestamp
\* columns.
C4_TotalCostIsTariffTimesTotalKwh ==
    IsSome(page.metrics) =>
        LET df    == Get(CurrentData)
            cols  == Get(page.device_cols)
            total == RawKwhTotal(df, cols, Len(cols))
            shown == Tail(Get(page.metrics).cost)
        IN  /\ Get(page.total_kwh) = total
            /\ Get(page.total_cost) = QMul(tariff, total)
            /\ IsDecimal(shown)
            /\ Len(shown) - PointAt(shown) = 2
            /\ IsRounding(ParseDecimal(shown), QMul(tariff, total), 2)
            /\ device_type = Str_All =>
                  Len(cols) = Cardinality({i \in 1..Len(df.columns) :
                                              df.columns[i] # Str_Timestamp})

\* Two device columns with different totals, a tariff with a fraction, and a
\* total cost that the card has to round.
C4_Witness ==
    /\ IsSome(uploaded)
    /\ IsSome(page.metrics)
    /\ device_type = Str_All
    /\ tariff = <<33, 4>>
    /\ Len(Get(page.device_cols)) = 2
    /\ Get(page.kwh_per_device)[1].value # Get(page.kwh_per_device)[2].value
    /\ Pow10(2) % Get(page.total_cost)[2] # 0

---------------------------------------------------------------------------
(* Granularity and the device filter *)

\* C5: a change of the Time View, with the dataset, the device selection and
\* the tariff as they were, leaves the per-device kWh and cost, the totals,
\* and everything shown from them as they were; only the bucketed mean series
\* and the line chart drawn from it may change.
C5_GranularityLeavesSummary ==
    [][time_granularity' # time_granularity =>
          /\ page'.summary = page.summary
          /\ page'.kwh_per_device = page.kwh_per_device
          /\ page'.costs = page.costs
          /\ page'.total_kwh = page.total_kwh
          /\ page'.total_cost = page.total_cost
          /\ page'.metrics = page.metrics
          /\ page'.device_cols = page.device_cols
          /\ page'.fig_bar = page.fig_bar
          /\ page'.fig_pie = page.fig_pie
          /\ page'.top_devices = page.top_devices
          /\ page'.csv = page.csv
          /\ page'.message = page.message]_vars

\* A dashboard of an uploaded file under a Time View other than the first,
\* whose bucketed series is not the hourly one.
C5_Witness ==
    /\ IsSome(uploaded)
    /\ IsSome(page.summary)
    /\ time_granularity = "Daily"
    /\ Len(Get(uploaded).rows) = 2
    /\ Get(page.agg) # Resample(Work(Get(uploaded)), "H")
    /\ Get(page.summary)
           = Get(Render(device_type, "Hourly", tariff, data_option, uploaded).summary)

\* C6: filtering to a set S of devices gives a Summary whose devices are
\* exactly S (the columns whose name contains the device type), each with the
\* kWh it has in the Summary of "All".
C6_FilterKeepsPerDeviceTotals ==
    (device_type # Str_All /\ IsSome(page.summary)) =>
        LET df   == Get(CurrentData)
            summ == Get(page.summary)
            kwh  == Get(page.kwh_per_device)
            all  == Render(Str_All, time_granularity, tariff, data_option, uploaded)
            S    == {df.columns[i] : i \in
                        {k \in 1..Len(df.columns) :
                            /\ df.columns[k] # Str_Timestamp
                            /\ Contains(device_type, df.columns[k])}}
        IN  /\ IsSome(all.summary)
            /\ {summ[i].index : i \in 1..Len(summ)} = S
            /\ Len(summ) = Cardinality(S)
            /\ \A i \in 1..Len(summ) :
                  \E j \in 1..Len(Get(all.summary)) :
                      /\ Get(all.summary)[j].index = summ[i].index
                      /\ Get(all.summary)[j].kwh = summ[i].kwh
                      /\ Get(all.kwh_per_device)[j].value = kwh[i].value

\* The filter keeps the second of two device columns of an uploaded file, and
\* the two columns have different totals.
C6_Witness ==
    /\ IsSome(uploaded)
    /\ device_type = Str_Light
    /\ IsSome(page.summary)
    /\ Len(Get(page.summary)) = 1
    /\ Len(DeviceCols(Get(uploaded))) = 2
    /\ Len(Get(uploaded).rows) > 0
    /\ RawKwh(Get(uploaded), Str_FanQ) # RawKwh(Get(uploaded), Str_LightW)

---------------------------------------------------------------------------
(* The bucketed mean series *)

\* The parsed time of row r of a valid file.
TimeOfRow(df, r) == to_datetime(Column(df, Str_Timestamp)[r])

\* The rows of df whose time falls in bucket b.
RowsIn(df, rule, b) ==
    {r \in 1..Len(df.rows) : BucketOf(rule, TimeOfRow(df, r)) = b}

\* The buckets that hold a row of df.
Occupied(df, rule) ==
    {BucketOf(rule, TimeOfRow(df, r)) : r \in 1..Len(df.rows)}

\* The sum of the cells of column i over the rows of R among the first r rows.
RECURSIVE RawSumIn(_, _, _, _)
RawSumIn(df, i, R, r) ==
    IF r = 0 THEN QInt(0)
    ELSE IF r \in R THEN QAdd(RawSumIn(df, i, R, r - 1), df.rows[r][i])
    ELSE RawSumIn(df, i, R, r - 1)

\* The mean of device c over the rows of R (R not empty).
RawMean(df, c, R) ==
    LET i == CHOOSE k \in 1..Len(df.columns) : df.columns[k] = c
        w == RawSumIn(df, i, R, Len(df.rows))
    IN  Q(w[1], w[2] * Cardinality(R))

\* The rows of the series that carry a mean.
NonEmptyRows(agg) ==
    {k \in 1..Len(agg.index) : \E j \in 1..Len(agg.columns) : IsSome(agg.data[k][j])}

\* C7 as stated: the series has exactly one entry for each bucket that holds at
\* least one reading, carrying the per-device means, and no entry for a bucket
\* without readings, also not between two buckets that hold some.
C7_OnlyOccupiedBucketsEmitted ==
    IsSome(page.agg) =>
        LET df   == Get(CurrentData)
            agg  == Get(page.agg)
            rule == RuleOf(time_granularity)
        IN  /\ Len(agg.index) = Cardinality(Occupied(df, rule))
            /\ NonEmptyRows(agg) = 1..Len(agg.index)
            /\ Len(Get(page.fig_line)) = Cardinality(Occupied(df, rule))

\* C7 as amended: the series has exactly one entry for every bucket from the
\* bucket of the earliest reading to the bucket of the latest one, in order.
\* The entry of a bucket that holds readings carries the per-device mean of
\* those readings (readings with the same timestamp averaged together); the
\* entry of a bucket without readings, which lies between two buckets that
\* hold some, is emitted with NaN for every device.  The line chart is drawn
\* from these entries.
C7_BucketsFromFirstToLast ==
    IsSome(page.agg) =>
        LET df   == Get(CurrentData)
            agg  == Get(page.agg)
            fig  == Get(page.fig_line)
            cols == Get(page.device_cols)
            rule == RuleOf(time_granularity)
            occ  == Occupied(df, rule)
        IN  IF occ = {} THEN agg.index = <<>> /\ fig = <<>>
            ELSE LET lo == CHOOSE b \in occ : \A c \in occ : b <= c
                     hi == CHOOSE b \in occ : \A c \in occ : b >= c
                 IN  /\ Len(agg.index) = hi - lo + 1
                     /\ Len(fig) = hi - lo + 1
                     /\ agg.columns = DeviceCols(df)
                     /\ \A k \in 1..Len(agg.index) :
                           LET R == RowsIn(df, rule, lo + k - 1)
                           IN  /\ agg.index[k] = BucketLabel(rule, lo + k - 1)
                               /\ fig[k].Timestamp = agg.index[k]
                               /\ \A j \in 1..Len(agg.columns) :
                                     agg.data[k][j] =
                                        IF R = {} THEN None
                                        ELSE Some(RawMean(df, agg.columns[j], R))
                               /\ \A i \in 1..Len(cols) :
                                     fig[k].y[i] =
                                        IF R = {} THEN None
                                        ELSE Some(RawMean(df, cols[i], R))

\* Two readings two hours apart under the hourly view: the hour between them
\* has an entry of NaN.
C7_Witness ==
    /\ IsSome(uploaded)
    /\ IsSome(page.agg)
    /\ time_granularity = "Hourly"
    /\ Len(Get(uploaded).rows) = 2
    /\ Len(Get(page.agg).index) = 3
    /\ NonEmptyRows(Get(page.agg)) = {1, 3}

\* Two readings with the same timestamp and different watts are averaged.
C7_ReachDuplicates ==
    /\ IsSome(uploaded)
    /\ IsSome(page.agg)
    /\ Len(Get(uploaded).rows) = 2
    /\ TimeOfRow(Get(uploaded), 1) = TimeOfRow(Get(uploaded), 2)
    /\ Len(Get(page.agg).index) = 1
    /\ Get(uploaded).rows[1] # Get(uploaded).rows[2]
    /\ Get(page.agg).data[1][1]
           = Some(RawMean(Get(uploaded), Get(page.agg).columns[1], {1, 2}))

\* The span of the readings of a valid file with at least one row, in minutes.
Span(df) ==
    LET ts == {TimeOfRow(df, r) : r \in 1..Len(df.rows)}
    IN  (CHOOSE t \in ts : \A u \in ts : t >= u)
        - (CHOOSE t \in ts : \A u \in ts : t <= u)

\* The calendar months written in the Timestamp cells of a file.
MonthsWritten(df) ==
    {<<Column(df, Str_Timestamp)[r][1], Column(df, Str_Timestamp)[r][2]>> :
        r \in 1..Len(df.rows)}

ShortSpan(df) == Len(df.rows) > 0 /\ Span(df) < 24 * 60

\* C8 as stated: under Monthly, every dataset whose readings span less than one
\* day gives exactly one non-empty bucket.
C8_MonthlyShortSpanOneBucket ==
    (time_granularity = "Monthly" /\ IsSome(page.agg)
        /\ ShortSpan(Get(CurrentData))) =>
        Cardinality(NonEmptyRows(Get(page.agg))) = 1

\* C8 as amended: under Monthly, a dataset whose readings span less than one
\* day gives exactly one bucket, a non-empty one, when all its readings fall in
\* one calendar month, and two non-empty buckets when the span crosses the end
\* of a month.
C8_MonthlyShortSpanOneBucketPerMonth ==
    (time_granularity = "Monthly" /\ IsSome(page.agg)
        /\ ShortSpan(Get(CurrentData))) =>
        /\ Cardinality(NonEmptyRows(Get(page.agg)))
              = Cardinality(MonthsWritten(Get(CurrentData)))
        /\ Len(Get(page.agg).index) = Cardinality(MonthsWritten(Get(CurrentData)))
        /\ Cardinality(MonthsWritten(Get(CurrentData))) \in {1, 2}

\* Two readings two hours apart in December under Monthly: one bucket.
C8_Witness ==
    /\ IsSome(uploaded)
    /\ time_granularity = "Monthly"
    /\ IsSome(page.agg)
    /\ Len(Get(uploaded).rows) = 2
    /\ Span(Get(uploaded)) = 120
    /\ Len(Get(page.agg).index) = 1
    /\ NonEmptyRows(Get(page.agg)) = {1}

\* The sample under Monthly: nine hourly readings, one bucket.
C8_ReachSample ==
    /\ data_option = "Use Sample"
    /\ time_granularity = "Monthly"
    /\ IsSome(page.agg)
    /\ Len(Get(page.agg).index) = 1

---------------------------------------------------------------------------
(* The export, read back *)

\* A reader of delimited text: fields are separated by commas and records by
\* line breaks; a field that starts with a quote runs to the closing quote,
\* two quotes inside it standing for one.  A comma or a line break is a
\* separator iff an even number of quotes comes before it.
Separators(text, ch) ==
    {i \in 1..Len(text) :
        /\ text[i] = ch
        /\ Cardinality({j \in 1..(i - 1) : text[j] = "\""}) % 2 = 0}

\* The k-th smallest element of a set of numbers.
Nth(S, k) == CHOOSE x \in S : Cardinality({y \in S : y < x}) = k - 1

\* The pieces of text that the separators ch end or divide.
Pieces(text, ch, closed) ==
    LET S == Separators(text, ch)
        n == Cardinality(S)
        from(k) == IF k = 1 THEN 1 ELSE Nth(S, k - 1) + 1
        to(k)   == IF k = n + 1 THEN Len(text) ELSE Nth(S, k) - 1
    IN  [k \in 1..(IF closed THEN n ELSE n + 1) |-> SubSeq(text, from(k), to(k))]

\* One quote for every two.
RECURSIVE HalveQuotes(_)
HalveQuotes(s) ==
    IF s = <<>> THEN <<>>
    ELSE IF Head(s) = "\"" /\ Len(s) > 1 /\ s[2] = "\""
    THEN <<"\"">> \o HalveQuotes(SubSeq(s, 3, Len(s)))
    ELSE <<Head(s)>> \o HalveQuotes(Tail(s))

Unquote(f) ==
    IF Len(f) >= 2 /\ f[1] = "\"" /\ f[Len(f)] = "\""
    THEN HalveQuotes(SubSeq(f, 2, Len(f) - 1))
    ELSE f

\* The records of a text whose every record ends with a line break.
ParseCsv(text) ==
    LET lines == Pieces(text, "\n", TRUE)
    IN  [l \in 1..Len(lines) |->
            LET fields == Pieces(lines[l], ",", FALSE)
            IN  [k \in 1..Len(fields) |-> Unquote(fields[k])]]

\* The decimals written in a decimal text.
DecimalsWritten(s) == IF PointAt(s) = 0 THEN 0 ELSE Len(s) - PointAt(s)

\* C9: the text of summary.csv, read back, has the header and one record per
\* device of the Summary, in order, with the device labels and the numbers of
\* the Summary: total kWh at no more than 3 decimals, estimated cost at no
\* more than 2.
C9_ExportRoundTrip ==
    IsSome(page.csv) =>
        LET summ == Get(page.summary)
            t    == ParseCsv(Get(page.csv))
        IN  /\ Len(t) = Len(summ) + 1
            /\ t[1] = <<<<>>, Str_TotalKWh, Str_EstCost>>
            /\ [i \in 1..Len(summ) |-> t[i + 1][1]] = Get(page.device_cols)
            /\ \A i \in 1..Len(summ) :
                  /\ Len(t[i + 1]) = 3
                  /\ t[i + 1][1] = summ[i].index
                  /\ IsDecimal(t[i + 1][2])
                  /\ ParseDecimal(t[i + 1][2]) = summ[i].kwh
                  /\ DecimalsWritten(t[i + 1][2]) <= 3
                  /\ IsDecimal(t[i + 1][3])
                  /\ ParseDecimal(t[i + 1][3]) = summ[i].cost
                  /\ DecimalsWritten(t[i + 1][3]) <= 2

\* The export of a device whose label holds a comma and quotes, and so is
\* written quoted, with a kWh of three decimals and a cost of two.
C9_Witness ==
    /\ IsSome(uploaded)
    /\ IsSome(page.csv)
    /\ Get(page.device_cols) = <<Str_FanQ>>
    /\ DecimalsWritten(ParseCsv(Get(page.csv))[2][2]) = 3
    /\ DecimalsWritten(ParseCsv(Get(page.csv))[2][3]) = 2
    /\ Get(page.csv) # CsvLine(<<<<>>, Str_TotalKWh, Str_EstCost>>)
                       \o CsvLine(<<Str_FanQ, FloatRepr(Get(page.summary)[1].kwh),
                                    FloatRepr(Get(page.summary)[1].cost)>>)
    /\ ParseCsv(Get(page.csv))[2][1] = Str_FanQ

\* The export of the four devices of the sample.
C9_ReachSampleAll ==
    /\ data_option = "Use Sample" /\ device_type = Str_All
    /\ IsSome(page.csv)
    /\ Len(ParseCsv(Get(page.csv))) = 5

---------------------------------------------------------------------------
(* The session *)

\* The Summary worked out from the raw cells of a file, a device type and a
\* tariff, and from nothing else.
FreshSummary(df, dt, tf) ==
    LET picked == {k \in 1..Len(df.columns) :
                      /\ df.columns[k] # Str_Timestamp
                      /\ dt = Str_All \/ Contains(dt, df.columns[k])}
        cols   == SelectSeq(df.columns, LAMBDA c : \E k \in picked : df.columns[k] = c)
    IN  [i \in 1..Len(cols) |->
            [index |-> cols[i],
             kwh   |-> QRound(RawKwh(df, cols[i]), 3),
             cost  |-> QRound(QMul(RawKwh(df, cols[i]), tf), 2)]]

HasInputError(df, dt) ==
    \/ MissingColumn(df)
    \/ UnparsableTimestamp(df)
    \/ NoDeviceColumns(df)
    \/ EmptyFilterResult(df, dt)

\* C10: after any sequence of interactions the page is the one a pass from
\* scratch over the current widget values gives.  Its Summary and totals are
\* those of the currently loaded dataset, the current device selection and
\* the current tariff alone; there is none when the current inputs give none.
C10_SummaryOfCurrentInputsOnly ==
    /\ page = Render(device_type, time_granularity, tariff, data_option, uploaded)
    /\ IF IsSome(CurrentData) /\ ~HasInputError(Get(CurrentData), device_type)
       THEN LET fresh == FreshSummary(Get(CurrentData), device_type, tariff)
            IN  /\ page.summary = Some(fresh)
                /\ page.total_kwh = Some(RawKwhTotal(Get(CurrentData),
                                            [i \in 1..Len(fresh) |-> fresh[i].index],
                                            Len(fresh)))
                /\ page.total_cost = Some(QMul(tariff, Get(page.total_kwh)))
       ELSE page.summary = None /\ page.total_kwh = None /\ page.total_cost = None

\* A dashboard of an uploaded file with no widget at the value the session
\* started with: at least four passes came before it.
C10_Witness ==
    /\ IsSome(uploaded)
    /\ data_option = "Upload CSV"
    /\ device_type = Str_Fan
    /\ time_granularity = "Monthly"
    /\ tariff = <<33, 4>>
    /\ IsSome(page.summary)
    /\ Len(Get(uploaded).rows) = 2

=============================================================================
